---- MODULE Spec2Model ----
(***************************************************************************)
(* Model of streamlit_ui.py: the client-side orchestration of the          *)
(* reconciliation workflow.                                                *)
(*                                                                         *)
(*   - parse_bank_matches        the aggregator (a pure function)          *)
(*   - poll_status_until_ready   the blocking poll loop                    *)
(*   - the script body           history adoption, the view dispatch and   *)
(*                               the handlers of each view                 *)
(*   - _bg_load_history          the background history worker             *)
(*                                                                         *)
(* Python values are represented as follows.  A dict is a function on a    *)
(* set of string keys, so that d.get(k, default) is Get(d, k, default).    *)
(* A list is a sequence.  An optional value (None or a value) is a         *)
(* sequence of length 0 or 1: None is <<>> and a value v is <<v>>.         *)
(* A confidence (a float in [0, 1]) is counted in millionths.              *)
(***************************************************************************)
EXTENDS Integers, Sequences, FiniteSets, TLC

VARIABLES
    \* ---- the aggregator's call (SpecAgg) ----
    agg_args,                \* the arguments of a parse_bank_matches call
    summary,                 \* its result: None before the call
    \* ---- the history loader's call (SpecFetch) ----
    fetch_body,              \* "history" of the GET /reconcile/history body
    fetch_ret,               \* what fetch_history returned: None before
    \* ---- st.session_state ----
    view_mode,
    current_thread_id,
    reconciliation_status,   \* optional status payload
    history,                 \* the session run list
    history_bg_started,
    rec_counter,
    \* ---- module level ----
    _bg_history,             \* the background loader's staging slot
    \* ---- control ----
    bg_pc,                   \* position of the background worker thread
    pc,                      \* position of the interaction thread
    attempt,                 \* loop index of poll_status_until_ready
    poll_ret,                \* value returned by poll_status_until_ready
    \* ---- the job service ----
    srv,                     \* per run token: the status the service holds
    history_is_bg_data,      \* the run list and the slot's data are one
                             \* list object (after the adoption's assignment)
    \* ---- observation ----
    ev,                      \* the step just taken and the requests it sent
    poll_calls,              \* status calls issued by the current poll
    poll_seen,               \* status values the current poll has received
    bg_threads,              \* number of background fetches started
    adoptions,               \* adoptions of the staged result since the
                             \* last explicit refresh
    \* ---- st.session_state, keys created by the views ----
    history_page,            \* page cursor of the History tab (the key is
                             \* created with 1 before its first use)
    approval_submitted,      \* flag of the export view's Approve button
    selected_history_item,   \* the record shown by the History tab's detail
                             \* view: None while the list is shown
    matched_page,            \* page cursor of the matched view
    previous_bank_filter     \* the bank filter last applied there: None
                             \* while the key is absent

vars == <<agg_args, summary, fetch_body, fetch_ret, view_mode, current_thread_id,
          reconciliation_status, history, history_bg_started, rec_counter,
          _bg_history, bg_pc, pc, attempt, poll_ret, srv, history_is_bg_data,
          ev, poll_calls, poll_seen, bg_threads, adoptions,
          history_page, approval_submitted, selected_history_item,
          matched_page, previous_bank_filter>>

matchedVars == <<matched_page, previous_bank_filter>>

uiVars == <<history_page, approval_submitted, selected_history_item,
            matched_page, previous_bank_filter>>

aggVars == <<agg_args, summary, fetch_body, fetch_ret>>

sessionVars == <<view_mode, current_thread_id, reconciliation_status,
                 history, history_bg_started, rec_counter>>

pollVars == <<attempt, poll_ret, poll_calls, poll_seen>>

workflowVars == <<view_mode, current_thread_id, reconciliation_status,
                  history, history_bg_started, rec_counter, _bg_history,
                  bg_pc, pc, attempt, poll_ret, srv, history_is_bg_data, ev,
                  poll_calls, poll_seen, bg_threads, adoptions,
                  history_page, approval_submitted, selected_history_item,
                  matched_page, previous_bank_filter>>

-----------------------------------------------------------------------------
(* Python values *)

None == <<>>
Some(v) == <<v>>
EmptyDict == [k \in {} |-> 0]
Get(d, k, default) == IF k \in DOMAIN d THEN d[k] ELSE default
SeqsUpTo(S, n) == UNION {[1..k -> S] : k \in 0..n}

-----------------------------------------------------------------------------
(* parse_bank_matches *)

\* 0.75 in millionths
AutoThreshold == 750000

MatchTypeLoose(match) ==
    IF Get(match, "confidence", 0) > AutoThreshold THEN "Auto" ELSE "Manual"

MatchType(match) ==
    IF Get(match, "confidence", 0) >= AutoThreshold THEN "Auto" ELSE "Manual"

MatchedRecordLastGl(bank_name, match) ==
    LET gl_entries == Get(match, "gl_entries", <<>>)
        gl_transaction == IF gl_entries # <<>> THEN gl_entries[Len(gl_entries)]
                          ELSE EmptyDict
    IN  [bank |-> bank_name,
         bank_transaction |-> Get(match, "bank_transaction", EmptyDict),
         gl_transaction |-> gl_transaction,
         match_type |-> MatchType(match),
         confidence |-> Get(match, "confidence", 0)]

MatchedRecord(bank_name, match) ==
    LET gl_entries == Get(match, "gl_entries", <<>>)
        gl_transaction == IF gl_entries # <<>> THEN gl_entries[1] ELSE EmptyDict
    IN  [bank |-> bank_name,
         bank_transaction |-> Get(match, "bank_transaction", EmptyDict),
         gl_transaction |-> gl_transaction,
         match_type |-> MatchType(match),
         confidence |-> Get(match, "confidence", 0)]

\* {"bank": bank_name, **record}: the record's own keys win
Tagged(bank_name, record) == record @@ ("bank" :> bank_name)

EmptySummaryDropGl(unmatched_gl_transactions) ==
    [matched_count |-> 0,
     unmatched_count |-> 0,
     exceptions_count |-> 0,
     matched_transactions |-> <<>>,
     unmatched_bank |-> <<>>,
     unmatched_gl |-> <<>>,
     exceptions |-> <<>>,
     ai_suggestions |-> <<>>]

EmptySummary(unmatched_gl_transactions) ==
    [matched_count |-> 0,
     unmatched_count |-> 0,
     exceptions_count |-> 0,
     matched_transactions |-> <<>>,
     unmatched_bank |-> <<>>,
     unmatched_gl |-> IF unmatched_gl_transactions # None
                         /\ unmatched_gl_transactions[1] # <<>>
                      THEN unmatched_gl_transactions[1]
                      ELSE <<>>,
     exceptions |-> <<>>,
     ai_suggestions |-> <<>>]

\* one iteration of the loop over bank_matches.items()
AddBankDouble(s, bank_name, bank_data) ==
    LET matched == Get(bank_data, "matched_transactions", <<>>)
        exceptions == Get(bank_data, "exceptions", <<>>)
        unmatched_bank == Get(bank_data, "unmatched_bank_transactions", <<>>)
        ai_suggestions == Get(bank_data, "ai_suggestions", <<>>)
    IN  [s EXCEPT
          !.matched_count = @ + Len(matched),
          !.matched_transactions = @ \o [i \in 1..Len(matched) |->
                  MatchedRecord(bank_name, matched[i])],
          !.exceptions_count = @ + Len(exceptions) + Len(s.exceptions),
          !.exceptions = @ \o [i \in 1..Len(exceptions) |->
                  Tagged(bank_name, exceptions[i])],
          !.unmatched_count = @ + Len(unmatched_bank),
          !.unmatched_bank = @ \o [i \in 1..Len(unmatched_bank) |->
                  Tagged(bank_name, unmatched_bank[i])],
          !.ai_suggestions = @ \o [i \in 1..Len(ai_suggestions) |->
                  Tagged(bank_name, ai_suggestions[i])]]

AddBank(s, bank_name, bank_data) ==
    LET matched == Get(bank_data, "matched_transactions", <<>>)
        exceptions == Get(bank_data, "exceptions", <<>>)
        unmatched_bank == Get(bank_data, "unmatched_bank_transactions", <<>>)
        ai_suggestions == Get(bank_data, "ai_suggestions", <<>>)
    IN  [s EXCEPT
          !.matched_count = @ + Len(matched),
          !.matched_transactions = @ \o [i \in 1..Len(matched) |->
                  MatchedRecord(bank_name, matched[i])],
          !.exceptions_count = @ + Len(exceptions),
          !.exceptions = @ \o [i \in 1..Len(exceptions) |->
                  Tagged(bank_name, exceptions[i])],
          !.unmatched_count = @ + Len(unmatched_bank),
          !.unmatched_bank = @ \o [i \in 1..Len(unmatched_bank) |->
                  Tagged(bank_name, unmatched_bank[i])],
          !.ai_suggestions = @ \o [i \in 1..Len(ai_suggestions) |->
                  Tagged(bank_name, ai_suggestions[i])]]

\* bank_matches is the dict in iteration order: a sequence of
\* <<bank_name, bank_data>> items with pairwise distinct names
RECURSIVE AggregateFrom(_, _, _)
AggregateFrom(s, bank_matches, i) ==
    IF i > Len(bank_matches) THEN s
    ELSE AggregateFrom(AddBank(s, bank_matches[i][1], bank_matches[i][2]),
                       bank_matches, i + 1)

parse_bank_matches(bank_matches, unmatched_gl_transactions) ==
    AggregateFrom(EmptySummary(unmatched_gl_transactions), bank_matches, 1)

-----------------------------------------------------------------------------
(* Inputs of the aggregator *)

\* the largest number of records (over all banks and lists) in one payload
MaxRecords == 2

BankNames == {"GTB", "Access"}

Gl(n) == ("transaction_id" :> n)
Tx(n) == ("transaction_id" :> n)

\* matched entries: confidence absent, just below, at and above the
\* threshold; gl_entries absent, empty, with one and with two elements
MatchEntries ==
    { ("bank_transaction" :> Tx(1)),
      ("bank_transaction" :> Tx(2)) @@ ("confidence" :> AutoThreshold - 1)
          @@ ("gl_entries" :> <<>>),
      ("bank_transaction" :> Tx(3)) @@ ("confidence" :> AutoThreshold)
          @@ ("gl_entries" :> <<Gl(1)>>),
      ("confidence" :> 1000000) @@ ("gl_entries" :> <<Gl(2), Gl(1)>>) }

ExceptionEntries ==
    { ("bank_account" :> "acc") @@ ("bank_transaction" :> Tx(7)) }

UnmatchedEntries == { Tx(9) }

\* a key that is absent, or present with a list of at most n elements
OptField(k, S, n) == {EmptyDict} \cup {k :> l : l \in SeqsUpTo(S, n)}

Size(bank_data) ==
    Len(Get(bank_data, "matched_transactions", <<>>))
    + Len(Get(bank_data, "exceptions", <<>>))
    + Len(Get(bank_data, "unmatched_bank_transactions", <<>>))

BankDatas(n) ==
    UNION { UNION { { m @@ e @@ u :
                      u \in OptField("unmatched_bank_transactions",
                                     UnmatchedEntries,
                                     n - Size(m) - Size(e)) } :
                    e \in OptField("exceptions", ExceptionEntries,
                                   n - Size(m)) } :
            m \in OptField("matched_transactions", MatchEntries, n) }

RECURSIVE BankMatchesOver(_, _)
BankMatchesOver(names, n) ==
    {<<>>} \cup
    UNION { UNION { { <<<<b, d>>>> \o rest :
                      rest \in BankMatchesOver(names \ {b}, n - Size(d)) } :
                    d \in BankDatas(n) } :
            b \in names }

UnmatchedGlArgs == {None, Some(<<>>), Some(<<Gl(5)>>)}

AggInputs(n) ==
    { [bank_matches |-> bm, unmatched_gl_transactions |-> gl] :
        bm \in BankMatchesOver(BankNames, n),
        gl \in UnmatchedGlArgs }

-----------------------------------------------------------------------------
(* Observation: the handler that just ran on a button press, whether the   *)
(* service accepted its request, and the requests the handler sent.  Every *)
(* other step leaves NoEvent.                                              *)

Event(op, ok, status_calls, decision_calls) ==
    [op |-> op, ok |-> ok, status_calls |-> status_calls,
     decision_calls |-> decision_calls]

NoEvent == Event("none", TRUE, 0, 0)

-----------------------------------------------------------------------------
(* The job service, as the client sees it *)

\* runs the service accepts to start in one session
MaxRuns == 1
\* exceptions the service reports for one run
MaxExc == 1

\* runs one session starts when the export view is explored
MaxExportRuns == 2

\* the tokens the service hands out, one per run
RunTokens ==
    1..(IF MaxRuns >= MaxExportRuns THEN MaxRuns ELSE MaxExportRuns)
\* current_thread_id is None
NoThread == 0

ReviewStatuses == {"awaiting_human_review", "review_required"}

ExceptionEntry(n) ==
    ("bank_account" :> "acc") @@ ("bank_transaction" :> Tx(n))
    @@ ("confidence" :> 700000)

NoRun == [status |-> "none", exceptions |-> <<>>, matched |-> <<>>,
          unmatched |-> <<>>]

\* the body of GET /reconcile/status/{t}
Payload(s, t) ==
    [thread_id |-> t,
     status |-> s[t].status,
     bank_matches |->
        << <<"GTB", [matched_transactions |-> s[t].matched,
                     exceptions |-> s[t].exceptions,
                     unmatched_bank_transactions |-> s[t].unmatched]>> >>,
     unmatched_gl_transactions |-> <<>>]

\* what a status request can return: None on a transport error or a
\* non-200 answer, else the payload
StatusResponses(s, t) ==
    {None} \cup (IF t \in RunTokens /\ s[t].status # "none"
                 THEN {Some(Payload(s, t))} ELSE {})

\* exception_id = f"{bank_account}_{transaction_id}"
ExceptionIdAccountOnly(exception) ==
    <<Get(exception, "bank_account", "unknown"), 0>>

ExceptionId(exception) ==
    <<Get(exception, "bank_account", "unknown"),
      Get(Get(exception, "bank_transaction", EmptyDict),
          "transaction_id", "unknown")>>

\* the identifier under which the service knows an exception it holds
ServiceExceptionId(exception) ==
    <<exception["bank_account"],
      exception["bank_transaction"]["transaction_id"]>>

RECURSIVE Without(_, _)
Without(list, id) ==
    IF list = <<>> THEN <<>>
    ELSE IF ServiceExceptionId(Head(list)) = id THEN Without(Tail(list), id)
    ELSE <<Head(list)>> \o Without(Tail(list), id)

\* the service's state after it accepted a decision on an exception: the
\* exception leaves the list of exceptions the service reports
Decided(s, t, id, decision) ==
    IF t \notin RunTokens THEN s
    ELSE [s EXCEPT ![t].exceptions = Without(@, id)]

\* the service's own progress on run t (the run the client asks about)
SrvProgress(t) ==
    /\ t = current_thread_id
    /\ \/ /\ srv[t].status = "running"
          /\ \E k \in 1..MaxExc, st \in ReviewStatuses :
                srv' = [srv EXCEPT ![t].status = st,
                          ![t].exceptions = [i \in 1..k |-> ExceptionEntry(i)]]
       \/ /\ srv[t].status = "running"
          /\ srv' = [srv EXCEPT ![t].status = "awaiting_final_approval"]
       \/ /\ srv[t].status = "running"
          /\ srv' = [srv EXCEPT ![t].status = "failed"]
       \/ /\ srv[t].status \in ReviewStatuses
          /\ srv[t].exceptions = <<>>
          /\ srv' = [srv EXCEPT ![t].status = "awaiting_final_approval"]
    /\ ev' = NoEvent
    /\ UNCHANGED <<aggVars, uiVars, sessionVars, pollVars, _bg_history,
                   bg_pc, pc, history_is_bg_data, bg_threads, adoptions>>

-----------------------------------------------------------------------------
(* fetch_history *)

RawRecord(t, created) ==
    [thread_id |-> t, created_at |-> created, status |-> "complete"]

\* a record whose metadata holds the result snapshot of its run
SnapshotMetadata ==
    [bank_matches |-> << <<"GTB", [matched_transactions |-> <<>>]>> >>]

\* JSON text is modelled by the value it parses to, under the key "text"
IsText(value) == DOMAIN value = {"text"}

RawRecordWithMetadata(t, created) ==
    [thread_id |-> t, created_at |-> created, status |-> "complete",
     metadata |-> SnapshotMetadata]

\* what GET /reconcile/history can hold
RawHistories ==
    { <<>>,
      <<RawRecord(101, 5), RawRecordWithMetadata(102, 7)>> }

\* sorted(records, key=created_at, reverse=True): stable
RECURSIVE InsertDesc(_, _)
InsertDesc(r, sorted) ==
    IF sorted = <<>> THEN <<r>>
    ELSE IF Head(sorted).created_at >= r.created_at
         THEN <<Head(sorted)>> \o InsertDesc(r, Tail(sorted))
         ELSE <<r>> \o sorted

RECURSIVE SortDesc(_)
SortDesc(records) ==
    IF records = <<>> THEN <<>>
    ELSE LET n == Len(records)
         IN  InsertDesc(records[n], SortDesc(SubSeq(records, 1, n - 1)))

\* a created_at of JSON null, and the default "" of a missing created_at
NullStamp == -1

EmptyStamp == 0

\* sorted() compares the keys of two or more records; None compares with
\* nothing, and the except clause then keeps the order received
SortFails(records) ==
    /\ Len(records) >= 2
    /\ \E i \in 1..Len(records) : records[i].created_at = NullStamp

SortedRecordsAsReceived(records) == records

SortedRecords(records) ==
    IF SortFails(records) THEN records ELSE SortDesc(records)

\* rec_id = f"REC-{n:03d}"
RecId(n) == <<"REC", n>>

fetch_history(raw) ==
    LET history_records == SortedRecords(raw)
    IN  [idx \in 1..Len(history_records) |->
            [rec_id |-> RecId(idx),
             thread_id |-> history_records[idx].thread_id,
             status |-> Get(history_records[idx], "status", "unknown"),
             created_at |-> history_records[idx].created_at,
             results |-> Get(history_records[idx], "metadata", EmptyDict)]]

\* outcomes of one call of fetch_history: it raises, returns None
\* (non-200), or returns the converted list
FetchOutcomes ==
    {[raised |-> TRUE, value |-> None], [raised |-> FALSE, value |-> None]}
    \cup {[raised |-> FALSE, value |-> Some(fetch_history(raw))] :
            raw \in RawHistories}

-----------------------------------------------------------------------------
(* The workflow: initial state *)

WorkflowInit ==
    /\ view_mode = "main"
    /\ current_thread_id = NoThread
    /\ reconciliation_status = None
    /\ history = <<>>
    /\ history_bg_started = FALSE
    /\ rec_counter = 1
    /\ _bg_history = [ready |-> FALSE, data |-> None, error |-> None]
    /\ bg_pc = "unborn"
    /\ pc = "idle"
    /\ attempt = 0
    /\ poll_ret = None
    /\ srv = [t \in RunTokens |-> NoRun]
    /\ history_is_bg_data = FALSE
    /\ ev = NoEvent
    /\ poll_calls = 0
    /\ poll_seen = {}
    /\ bg_threads = 0
    /\ adoptions = 0
    /\ history_page = 1
    /\ approval_submitted = FALSE
    /\ selected_history_item = None
    /\ matched_page = 1
    /\ previous_bank_filter = None

-----------------------------------------------------------------------------
(* The background history worker *)

\* start_background_history_load, without its session flag
start_background_history_load_unflagged ==
    /\ bg_pc' = "fetch"
    /\ bg_threads' = bg_threads + 1
    /\ UNCHANGED history_bg_started

start_background_history_load ==
    IF history_bg_started
    THEN UNCHANGED <<history_bg_started, bg_pc, bg_threads>>
    ELSE /\ history_bg_started' = TRUE
         /\ bg_pc' = "fetch"
         /\ bg_threads' = bg_threads + 1

\* _bg_load_history up to its first assignment: the data, or the error
BgFetchReadyFirst(outcome) ==
    /\ bg_pc = "fetch"
    /\ _bg_history' = [_bg_history EXCEPT !.ready = TRUE]
    /\ bg_pc' = "set_ready"
    /\ ev' = NoEvent
    /\ UNCHANGED <<aggVars, uiVars, sessionVars, pollVars, pc, srv,
                   history_is_bg_data, bg_threads, adoptions>>

BgFetch(outcome) ==
    /\ bg_pc = "fetch"
    /\ _bg_history' =
          IF outcome.raised
          THEN [_bg_history EXCEPT !.error = Some("error")]
          ELSE [_bg_history EXCEPT !.data = outcome.value]
    /\ bg_pc' = "set_ready"
    /\ ev' = NoEvent
    /\ UNCHANGED <<aggVars, uiVars, sessionVars, pollVars, pc, srv,
                   history_is_bg_data, bg_threads, adoptions>>

\* _bg_history["ready"] = True
BgSetReadyAdopting ==
    /\ bg_pc = "set_ready"
    /\ _bg_history' = [_bg_history EXCEPT !.ready = TRUE]
    /\ history' = IF _bg_history.data # None THEN _bg_history.data[1]
                  ELSE history
    /\ bg_pc' = "done"
    /\ ev' = NoEvent
    /\ UNCHANGED <<aggVars, uiVars, view_mode, current_thread_id,
                   reconciliation_status, history_bg_started, rec_counter,
                   pollVars, pc, srv, history_is_bg_data, bg_threads,
                   adoptions>>

BgSetReady ==
    /\ bg_pc = "set_ready"
    /\ _bg_history' = [_bg_history EXCEPT !.ready = TRUE]
    /\ bg_pc' = "done"
    /\ ev' = NoEvent
    /\ UNCHANGED <<aggVars, uiVars, sessionVars, pollVars, pc, srv,
                   history_is_bg_data, bg_threads, adoptions>>

-----------------------------------------------------------------------------
(* The script body: one run of the script per interaction tick *)

\* adoptions in a row that are explored
MaxAdoptions == 2

\* the staged result is ready and the run list is empty: the script copies
\* it and calls st.rerun() before any view is rendered
AdoptsAnyResult ==
    /\ history = <<>>
    /\ history_bg_started
    /\ _bg_history.ready

Adopts ==
    /\ history = <<>>
    /\ history_bg_started
    /\ _bg_history.ready
    /\ _bg_history.data # None

\* a script run that gets as far as the view dispatch
ScriptRun ==
    /\ pc = "idle"
    /\ ~Adopts
    /\ IF history = <<>> /\ ~history_bg_started
       THEN start_background_history_load
       ELSE UNCHANGED <<history_bg_started, bg_pc, bg_threads>>

AdoptOverwriting ==
    /\ pc = "idle"
    /\ history_bg_started
    /\ _bg_history.ready
    /\ _bg_history.data # None
    /\ ~history_is_bg_data
    /\ adoptions < MaxAdoptions
    /\ history' = _bg_history.data[1]
    /\ history_is_bg_data' = TRUE
    /\ adoptions' = adoptions + 1
    /\ ev' = NoEvent
    /\ UNCHANGED <<aggVars, uiVars, view_mode, current_thread_id,
                   reconciliation_status, history_bg_started, rec_counter,
                   _bg_history, bg_pc, pc, pollVars, srv, bg_threads>>

Adopt ==
    /\ pc = "idle"
    /\ Adopts
    /\ adoptions < MaxAdoptions
    /\ history' = _bg_history.data[1]
    /\ history_is_bg_data' = TRUE
    /\ adoptions' = adoptions + 1
    /\ ev' = NoEvent
    /\ UNCHANGED <<aggVars, uiVars, view_mode, current_thread_id,
                   reconciliation_status, history_bg_started, rec_counter,
                   _bg_history, bg_pc, pc, pollVars, srv, bg_threads>>

-----------------------------------------------------------------------------
(* render_history: the list view of the History tab, rendered after the    *)
(* Reconcile tab by every script run that did not call st.rerun()          *)

\* load_history_from_api
load_history_from_api(outcome) ==
    IF ~outcome.raised /\ outcome.value # None
    THEN /\ history' = outcome.value[1]
         /\ history_is_bg_data' = FALSE
    ELSE UNCHANGED <<history, history_is_bg_data>>

\* a press of Refresh (click is the outcome of its fetch), or none
Clicks == {None} \cup {Some(outcome) : outcome \in FetchOutcomes}

\* render_export reads the cached status with no test for None: the
\* script run ends in an AttributeError at its first status.get
RenderRaises == view_mode = "export" /\ reconciliation_status = None

\* the views that test the cached status and show "No data available"
ViewsWithNoDataState == {"matched", "unmatched", "exceptions", "approval"}

\* Refresh is part of the list of the History tab, which is rendered after
\* the Reconcile tab
render_history(click) ==
    IF click # None
    THEN /\ selected_history_item = None
         /\ ~RenderRaises
         /\ load_history_from_api(click[1])
         /\ adoptions' = 0
    ELSE UNCHANGED <<history, history_is_bg_data, adoptions>>

NoHistoryTab == UNCHANGED <<history, history_is_bg_data, adoptions>>

RefreshEvent(click, status_calls) ==
    IF click # None
    THEN Event("refresh", ~click[1].raised /\ click[1].value # None,
               status_calls, 0)
    ELSE NoEvent

-----------------------------------------------------------------------------
(* Pagination: the same computation in the matched, unmatched and history  *)
(* lists; the History tab's cursor is history_page                         *)

ItemsPerPage == 5

\* total_pages = max(1, (total + items_per_page - 1) // items_per_page)
TotalPagesFloor(total) ==
    IF total \div ItemsPerPage >= 1 THEN total \div ItemsPerPage ELSE 1

TotalPages(total) ==
    LET pages == (total + ItemsPerPage - 1) \div ItemsPerPage
    IN  IF pages >= 1 THEN pages ELSE 1

\* list[start_idx:end_idx] with start_idx = (page - 1) * items_per_page and
\* end_idx = start_idx + items_per_page: a slice past the end is empty
PageSlice(list, page) ==
    LET start_idx == (page - 1) * ItemsPerPage
        end_idx == start_idx + ItemsPerPage
        stop == IF end_idx <= Len(list) THEN end_idx ELSE Len(list)
    IN  IF start_idx >= Len(list) THEN <<>>
        ELSE SubSeq(list, start_idx + 1, stop)

\* a script run whose Reconcile tab renders with no effect, so that the
\* History tab's list is rendered and one of its buttons can be pressed
HistoryListRendered ==
    /\ ScriptRun
    /\ view_mode # "processing"
    /\ ~(view_mode = "main" /\ current_thread_id # NoThread
         /\ reconciliation_status = None)
    /\ ~RenderRaises
    /\ selected_history_item = None
    /\ history # <<>>

\* Previous pressed in the History tab
HistoryPrev ==
    /\ HistoryListRendered
    /\ ~(history_page <= 1)
    /\ history_page' = history_page - 1
    /\ ev' = Event("history_prev", TRUE, 0, 0)
    /\ UNCHANGED <<aggVars, matchedVars, approval_submitted, selected_history_item, view_mode, current_thread_id,
                   reconciliation_status, history, rec_counter, _bg_history,
                   pc, pollVars, srv, history_is_bg_data, adoptions>>

\* Next pressed in the History tab
HistoryNext ==
    /\ HistoryListRendered
    /\ ~(history_page >= TotalPages(Len(history)))
    /\ history_page' = history_page + 1
    /\ ev' = Event("history_next", TRUE, 0, 0)
    /\ UNCHANGED <<aggVars, matchedVars, approval_submitted, selected_history_item, view_mode, current_thread_id,
                   reconciliation_status, history, rec_counter, _bg_history,
                   pc, pollVars, srv, history_is_bg_data, adoptions>>

\* the status rebuilt from the item's "metadata" entry when that entry is
\* JSON text; the items of fetch_history keep the snapshot under "results"
\* and the items of the Run handler have neither key
SnapshotStatus(item) ==
    IF /\ "metadata" \in DOMAIN item
       /\ item["metadata"] # EmptyDict
       /\ IsText(item["metadata"])
    THEN LET metadata == item["metadata"]["text"]
         IN  Some([status |-> "completed",
                   bank_matches |-> Get(metadata, "bank_matches", <<>>),
                   unmatched_gl_transactions |->
                      Get(metadata, "unmatched_gl_transactions", <<>>)])
    ELSE None

\* what GET /reconcile/status/{thread_id} can answer for a listed run: a
\* run of this session, or a past run the service keeps
ArchivedMatches(n) ==
    [i \in 1..n |->
        ("bank_transaction" :> Tx(i)) @@ ("confidence" :> 1000000)]

\* a past run of two banks, the first with more matches than one page holds
ArchivedPayload(t) ==
    [thread_id |-> t,
     status |-> "complete",
     bank_matches |->
        << <<"GTB", [matched_transactions |->
                        ArchivedMatches(ItemsPerPage + 1)]>>,
           <<"Access", [matched_transactions |-> ArchivedMatches(1)]>> >>,
     unmatched_gl_transactions |-> <<>>]

LiveResponses(t) ==
    IF t \in RunTokens
    THEN StatusResponses(srv, t)
    ELSE {None, Some(ArchivedPayload(t))}

\* the live status fetch runs when no status came from the snapshot
ViewFetches(item) == SnapshotStatus(item) = None /\ item.thread_id # NoThread

\* View pressed on the i-th entry of the current page
HistoryView(i, resp) ==
    /\ HistoryListRendered
    /\ i \in 1..Len(PageSlice(history, history_page))
    /\ LET item == PageSlice(history, history_page)[i]
       IN  /\ IF ViewFetches(item)
              THEN /\ resp \in LiveResponses(item.thread_id)
                   /\ reconciliation_status' = resp
                   /\ ev' = Event("history_view", TRUE, 1, 0)
              ELSE /\ resp = None
                   /\ reconciliation_status' = SnapshotStatus(item)
                   /\ ev' = Event("history_view", TRUE, 0, 0)
           /\ selected_history_item' = Some(item)
    /\ UNCHANGED <<aggVars, matchedVars, history_page, approval_submitted, view_mode,
                   current_thread_id, history, rec_counter, _bg_history, pc,
                   pollVars, srv, history_is_bg_data, adoptions>>

\* render_history_detail: Back
HistoryDetailBackToMain ==
    /\ ScriptRun
    /\ view_mode # "processing"
    /\ ~(view_mode = "main" /\ current_thread_id # NoThread
         /\ reconciliation_status = None)
    /\ ~RenderRaises
    /\ selected_history_item # None
    /\ selected_history_item' = None
    /\ view_mode' = "main"
    /\ ev' = Event("history_back", TRUE, 0, 0)
    /\ UNCHANGED <<aggVars, matchedVars, history_page, approval_submitted,
                   current_thread_id, reconciliation_status, history,
                   rec_counter, _bg_history, pc, pollVars, srv,
                   history_is_bg_data, adoptions>>

HistoryDetailBack ==
    /\ ScriptRun
    /\ view_mode # "processing"
    /\ ~(view_mode = "main" /\ current_thread_id # NoThread
         /\ reconciliation_status = None)
    /\ ~RenderRaises
    /\ selected_history_item # None
    /\ selected_history_item' = None
    /\ ev' = Event("history_back", TRUE, 0, 0)
    /\ UNCHANGED <<aggVars, matchedVars, history_page, approval_submitted, view_mode,
                   current_thread_id, reconciliation_status, history,
                   rec_counter, _bg_history, pc, pollVars, srv,
                   history_is_bg_data, adoptions>>

-----------------------------------------------------------------------------
(* render_reconciliation_main *)

RecoveryStatuses ==
    {"awaiting_human_review", "complete", "awaiting_final_approval"}

NeedsRecovery == current_thread_id # NoThread /\ reconciliation_status = None

\* the recovery block: a status request when a run is known and no status
\* is cached
Recovery(resp) ==
    IF NeedsRecovery
    THEN /\ resp \in StatusResponses(srv, current_thread_id)
         /\ reconciliation_status' =
               IF resp # None /\ resp[1].status \in RecoveryStatuses
               THEN resp ELSE reconciliation_status
    ELSE /\ resp = None
         /\ UNCHANGED reconciliation_status

Recovered(resp) ==
    NeedsRecovery /\ resp # None /\ resp[1].status \in RecoveryStatuses

FreeTokens == {t \in RunTokens : srv[t].status = "none"}

\* get_next_rec_id
get_next_rec_id_value == RecId(rec_counter)

LocalRecordComplete(rec_id, thread_id) ==
    [rec_id |-> rec_id, thread_id |-> thread_id, status |-> "complete"]

LocalRecord(rec_id, thread_id) ==
    [rec_id |-> rec_id, thread_id |-> thread_id, status |-> "processing"]

\* st.session_state.rec_counter += 1
NextRecCounterSame == rec_counter

NextRecCounter == rec_counter + 1

\* the view after the Run handler: `if thread_id:` moves it to processing
RunViewAlways(started) == "processing"

RunView(started) == IF started THEN "processing" ELSE view_mode

\* Run pressed and the start call returned a token
MainRunStarted ==
    /\ ScriptRun
    /\ view_mode = "main"
    /\ FreeTokens # {}
    /\ LET thread_id == CHOOSE t \in FreeTokens : \A u \in FreeTokens : t <= u
           item == LocalRecord(get_next_rec_id_value, thread_id)
       IN  /\ srv' = [srv EXCEPT ![thread_id].status = "running"]
           /\ current_thread_id' = thread_id
           /\ view_mode' = RunView(TRUE)
           /\ rec_counter' = NextRecCounter
           /\ history' = Append(history, item)
           /\ _bg_history' =
                 IF history_is_bg_data
                 THEN [_bg_history EXCEPT !.data = Some(Append(@[1], item))]
                 ELSE _bg_history
    /\ ev' = Event("run", TRUE, 0, 0)
    /\ UNCHANGED <<aggVars, uiVars, reconciliation_status, pc, pollVars,
                   history_is_bg_data, adoptions>>

\* Run pressed and the start call failed: the script goes on to the
\* recovery block
MainRunFailed(resp) ==
    /\ ScriptRun
    /\ view_mode = "main"
    /\ Recovery(resp)
    /\ view_mode' = RunView(FALSE)
    /\ ev' = Event("run", FALSE, IF NeedsRecovery THEN 1 ELSE 0, 0)
    /\ UNCHANGED <<aggVars, uiVars, current_thread_id, history,
                   rec_counter, _bg_history, pc, pollVars, srv,
                   history_is_bg_data, adoptions>>

\* the main view rendered with no button of its own pressed
MainRender(resp, click) ==
    /\ ScriptRun
    /\ view_mode = "main"
    /\ Recovery(resp)
    /\ IF Recovered(resp)
       THEN click = None /\ NoHistoryTab
       ELSE render_history(click)
    /\ ev' = RefreshEvent(click, IF NeedsRecovery THEN 1 ELSE 0)
    /\ UNCHANGED <<aggVars, uiVars, view_mode, current_thread_id, rec_counter,
                   _bg_history, pc, pollVars, srv>>

\* the view a metric tile or the export button of the main view opens
TileViewMatched(target) == "matched"

TileView(target) == target

\* render_metrics_display: a metric tile or the export button
MainSelect(target) ==
    /\ ScriptRun
    /\ view_mode = "main"
    /\ reconciliation_status # None
    /\ "bank_matches" \in DOMAIN reconciliation_status[1]
    /\ view_mode' = TileView(target)
    /\ ev' = Event("select_" \o target, TRUE, 0, 0)
    /\ UNCHANGED <<aggVars, uiVars, current_thread_id, reconciliation_status,
                   history, rec_counter, _bg_history, pc, pollVars, srv,
                   history_is_bg_data, adoptions>>

\* the back button of the matched, unmatched, exceptions and export views
Back ==
    /\ ScriptRun
    /\ view_mode \in {"matched", "unmatched", "exceptions", "export"}
    /\ view_mode' = "main"
    /\ ev' = Event("back", TRUE, 0, 0)
    /\ UNCHANGED <<aggVars, uiVars, current_thread_id, reconciliation_status,
                   history, rec_counter, _bg_history, pc, pollVars, srv,
                   history_is_bg_data, adoptions>>

\* a view other than main and processing rendered with no button of its
\* own pressed
ViewRender(click) ==
    /\ ScriptRun
    /\ view_mode \in {"matched", "unmatched", "exceptions", "export",
                      "approval"}
    /\ render_history(click)
    /\ ev' = RefreshEvent(click, 0)
    /\ UNCHANGED <<aggVars, uiVars, view_mode, current_thread_id,
                   reconciliation_status, rec_counter, _bg_history, pc,
                   pollVars, srv>>

-----------------------------------------------------------------------------
(* render_exceptions *)

CachedSummary ==
    parse_bank_matches(
        Get(reconciliation_status[1], "bank_matches", <<>>),
        Some(Get(reconciliation_status[1], "unmatched_gl_transactions", <<>>)))

RunExists(t) == t \in RunTokens /\ srv[t].status # "none"

\* what the handler caches after an accepted decision, given the status it
\* then fetched (None when that fetch failed)
AfterDecision(fresh_status) ==
    IF fresh_status # None THEN fresh_status ELSE reconciliation_status

\* the handler on a decision the service did not accept
DecisionRefusedRefetch ==
    /\ \E resp \in StatusResponses(srv, current_thread_id) :
          /\ resp # None
          /\ reconciliation_status' = resp
    /\ ev' = Event("decide", FALSE, 1, 1)

DecisionRefused ==
    /\ UNCHANGED reconciliation_status
    /\ ev' = Event("decide", FALSE, 0, 1)

\* Approve or Reject pressed on the idx-th exception shown
ExceptionDecision(idx, decision, accepted) ==
    /\ ScriptRun
    /\ view_mode = "exceptions"
    /\ reconciliation_status # None
    /\ idx \in 1..Len(CachedSummary.exceptions)
    /\ accepted => RunExists(current_thread_id)
    /\ LET exception_id == ExceptionId(CachedSummary.exceptions[idx])
       IN  IF accepted
           THEN /\ srv' = Decided(srv, current_thread_id, exception_id,
                                  decision)
                /\ \E fresh_status \in
                        StatusResponses(srv', current_thread_id) :
                      /\ reconciliation_status' = AfterDecision(fresh_status)
                      /\ ev' = Event("decide", TRUE, 1, 1)
           ELSE /\ UNCHANGED srv
                /\ DecisionRefused
    /\ UNCHANGED <<aggVars, uiVars, view_mode, current_thread_id, history,
                   rec_counter, _bg_history, pc, pollVars,
                   history_is_bg_data, adoptions>>

-----------------------------------------------------------------------------
(* render_matched_transactions *)

AllBanks == "All Banks"

\* banks = ["All Banks"] + list(set(tx["bank"] for tx in matched))
BankOptions(matched) ==
    {AllBanks} \cup {matched[i].bank : i \in 1..Len(matched)}

\* [tx for tx in matched if tx["bank"] == selected_bank]
FilterByBank(matched, selected_bank) ==
    LET OfBank(tx) == tx.bank = selected_bank
    IN  IF selected_bank # AllBanks THEN SelectSeq(matched, OfBank)
        ELSE matched

\* the filter differs from the one last applied, or none was applied yet
FilterChanged(selected_bank) ==
    previous_bank_filter = None \/ previous_bank_filter[1] # selected_bank

\* the cursor after the filter step
FilterPageKept(selected_bank) == matched_page

FilterPage(selected_bank) ==
    IF FilterChanged(selected_bank) THEN 1 ELSE matched_page

\* one script run of the matched view: the filter step, then the page
\* buttons, then the slice
MatchedRender(selected_bank, click) ==
    /\ ScriptRun
    /\ view_mode = "matched"
    /\ reconciliation_status # None
    /\ selected_bank \in BankOptions(CachedSummary.matched_transactions)
    /\ LET matched == FilterByBank(CachedSummary.matched_transactions,
                                   selected_bank)
           page == FilterPage(selected_bank)
       IN  /\ previous_bank_filter' = Some(selected_bank)
           /\ CASE click = "prev" ->
                     /\ ~(page <= 1)
                     /\ matched_page' = page - 1
                     /\ ev' = Event("matched_prev", TRUE, 0, 0)
                [] click = "next" ->
                     /\ ~(page >= TotalPages(Len(matched)))
                     /\ matched_page' = page + 1
                     /\ ev' = Event("matched_next", TRUE, 0, 0)
                [] OTHER ->
                     /\ matched_page' = page
                     /\ ev' = Event("matched_render", TRUE, 0, 0)
                              @@ [from_page |-> matched_page,
                                  shown |-> PageSlice(matched, page)]
    /\ UNCHANGED <<aggVars, history_page, approval_submitted,
                   selected_history_item, view_mode, current_thread_id,
                   reconciliation_status, history, rec_counter, _bg_history,
                   pc, pollVars, srv, history_is_bg_data, adoptions>>

-----------------------------------------------------------------------------
(* poll_status_until_ready and render_processing *)

MaxAttempts == 30

CheckpointStatusesShort ==
    {"awaiting_human_review", "awaiting_final_approval", "complete",
     "cancelled", "failed"}

CheckpointStatuses ==
    {"awaiting_human_review", "review_required", "awaiting_final_approval",
     "complete", "cancelled", "failed"}

TerminalStatuses == {"complete", "cancelled", "failed"}

\* the service's state after it accepted a cancel, an approval, a rejection
Cancelled(s, t) ==
    IF s[t].status \in TerminalStatuses THEN s
    ELSE [s EXCEPT ![t].status = "cancelled"]

Approved(s, t, decision) ==
    IF s[t].status \in TerminalStatuses THEN s
    ELSE [s EXCEPT ![t].status =
            IF decision = "approve" THEN "complete" ELSE "cancelled"]

BeginPoll ==
    /\ attempt' = 0
    /\ poll_ret' = None
    /\ poll_calls' = 0
    /\ poll_seen' = {}
    /\ pc' = IF current_thread_id = NoThread THEN "returned" ELSE "polling"

\* the view after the Cancel handler
CancelViewStay(ok) == view_mode

CancelView(ok) == IF ok THEN "main" ELSE view_mode

\* Cancel pressed; a refused cancel falls through to the poll
ProcessingCancel(ok) ==
    /\ ScriptRun
    /\ view_mode = "processing"
    /\ current_thread_id # NoThread
    /\ ok => RunExists(current_thread_id)
    /\ IF ok
       THEN /\ srv' = Cancelled(srv, current_thread_id)
            /\ UNCHANGED <<pc, pollVars>>
       ELSE /\ BeginPoll
            /\ UNCHANGED srv
    /\ view_mode' = CancelView(ok)
    /\ ev' = Event("cancel", ok, 0, 0)
    /\ UNCHANGED <<aggVars, uiVars, current_thread_id, reconciliation_status,
                   history, rec_counter, _bg_history, history_is_bg_data,
                   adoptions>>

\* the processing view rendered with no button pressed: the poll begins
ProcessingEnter ==
    /\ ScriptRun
    /\ view_mode = "processing"
    /\ BeginPoll
    /\ ev' = NoEvent
    /\ UNCHANGED <<aggVars, uiVars, view_mode, current_thread_id,
                   reconciliation_status, history, rec_counter, _bg_history,
                   srv, history_is_bg_data, adoptions>>

\* the cached status after a status call of the loop that succeeded
PollCacheCheckpointOnly(status) ==
    IF status[1].status \in CheckpointStatuses THEN status
    ELSE reconciliation_status

PollCache(status) == status

\* the loop index after an iteration that did not return
AttemptAfterRetryFree(status) ==
    IF status = None THEN attempt ELSE attempt + 1

AttemptAfter(status) == attempt + 1

\* one iteration of the loop: a status call, then return or sleep
PollAttempt(status) ==
    /\ pc = "polling"
    /\ attempt < MaxAttempts
    /\ status \in StatusResponses(srv, current_thread_id)
    /\ poll_calls' = poll_calls + 1
    /\ IF status # None
       THEN /\ reconciliation_status' = PollCache(status)
            /\ poll_seen' = poll_seen \cup {status[1].status}
            /\ IF status[1].status \in CheckpointStatuses
               THEN /\ poll_ret' = status
                    /\ pc' = "returned"
                    /\ ev' = Event("poll_return", TRUE, 1, 0)
                    /\ UNCHANGED attempt
               ELSE /\ attempt' = AttemptAfter(status)
                    /\ ev' = Event("poll_sleep", TRUE, 1, 0)
                    /\ UNCHANGED <<poll_ret, pc>>
       ELSE /\ attempt' = AttemptAfter(status)
            /\ ev' = Event("poll_sleep", FALSE, 1, 0)
            /\ UNCHANGED <<reconciliation_status, poll_seen, poll_ret, pc>>
    /\ UNCHANGED <<aggVars, uiVars, view_mode, current_thread_id, history,
                   history_bg_started, rec_counter, _bg_history, bg_pc, srv,
                   history_is_bg_data, bg_threads, adoptions>>

\* what the poll returns once its attempts are used up
PollTimeoutResultLast == reconciliation_status

PollTimeoutResult == None

PollExhausted ==
    /\ pc = "polling"
    /\ attempt = MaxAttempts
    /\ poll_ret' = PollTimeoutResult
    /\ pc' = "returned"
    /\ ev' = NoEvent
    /\ UNCHANGED <<aggVars, uiVars, sessionVars, attempt, poll_calls, poll_seen,
                   _bg_history, bg_pc, srv, history_is_bg_data, bg_threads,
                   adoptions>>

\* render_processing after the poll returned; when no branch calls
\* st.rerun() the script goes on to the History tab
ProcessingReturn(click) ==
    /\ pc = "returned"
    /\ pc' = "idle"
    /\ IF poll_ret # None
       THEN /\ reconciliation_status' = poll_ret
            /\ LET st == poll_ret[1].status
               IN  CASE st = "awaiting_human_review" ->
                          view_mode' = "main" /\ click = None /\ NoHistoryTab
                     [] st = "awaiting_final_approval" ->
                          view_mode' = "approval" /\ click = None
                          /\ NoHistoryTab
                     [] st = "complete" ->
                          view_mode' = "main" /\ click = None /\ NoHistoryTab
                     [] st = "cancelled" ->
                          view_mode' = "main" /\ click = None /\ NoHistoryTab
                     [] OTHER ->
                          UNCHANGED view_mode /\ render_history(click)
       ELSE /\ view_mode' = "main"
            /\ click = None
            /\ NoHistoryTab
            /\ UNCHANGED reconciliation_status
    /\ ev' = RefreshEvent(click, 0)
    /\ UNCHANGED <<aggVars, uiVars, current_thread_id, history_bg_started,
                   rec_counter, _bg_history, bg_pc, pollVars, srv,
                   bg_threads>>

-----------------------------------------------------------------------------
(* render_approval *)

\* the view an accepted decision of the approval view leads to
ApprovalTargetMain(decision) == "main"

ApprovalTarget(decision) ==
    IF decision = "approve" THEN "processing" ELSE "main"

ApprovalDecision(decision, ok) ==
    /\ ScriptRun
    /\ view_mode = "approval"
    /\ reconciliation_status # None
    /\ ok => RunExists(current_thread_id)
    /\ IF ok
       THEN /\ srv' = Approved(srv, current_thread_id, decision)
            /\ view_mode' = ApprovalTarget(decision)
       ELSE UNCHANGED <<srv, view_mode>>
    /\ ev' = Event(IF decision = "approve" THEN "approval_approve"
                   ELSE "approval_reject", ok, 0, 0)
    /\ UNCHANGED <<aggVars, uiVars, current_thread_id, reconciliation_status,
                   history, rec_counter, _bg_history, pc, pollVars,
                   history_is_bg_data, adoptions>>

-----------------------------------------------------------------------------
(* render_export *)

\* report_approved
ReportApproved ==
    reconciliation_status # None
    /\ Get(reconciliation_status[1], "status", "") = "complete"

\* ready_for_approval
ReadyForApproval == CachedSummary.exceptions_count = 0 /\ ~ReportApproved

\* the Approve button is rendered and not disabled
ExportApproveEnabled == ReadyForApproval /\ ~approval_submitted

\* the Reject button is rendered
ExportRejectEnabled == ReadyForApproval

\* the Excel button is not disabled
ExcelEnabled == ReportApproved

\* the cached status after an accepted decision of the export view: its
\* status field is overwritten in place
ExportDecidedComplete(status, decision) ==
    Some([status[1] EXCEPT !.status = "complete"])

ExportDecided(status, decision) ==
    Some([status[1] EXCEPT
            !.status = IF decision = "approve" THEN "complete"
                       ELSE "rejected"])

\* Approve pressed in the export view
ExportApprove(ok) ==
    /\ ScriptRun
    /\ view_mode = "export"
    /\ reconciliation_status # None
    /\ ExportApproveEnabled
    /\ ok => RunExists(current_thread_id)
    /\ IF ok
       THEN /\ approval_submitted' = TRUE
            /\ srv' = Approved(srv, current_thread_id, "approve")
            /\ reconciliation_status' =
                  ExportDecided(reconciliation_status, "approve")
       ELSE /\ approval_submitted' = FALSE
            /\ UNCHANGED <<srv, reconciliation_status>>
    /\ ev' = Event("export_approve", ok, 0, 0)
    /\ UNCHANGED <<aggVars, matchedVars, history_page, selected_history_item, view_mode, current_thread_id,
                   history, rec_counter, _bg_history, pc, pollVars,
                   history_is_bg_data, adoptions>>

\* Reject pressed in the export view
ExportReject(ok) ==
    /\ ScriptRun
    /\ view_mode = "export"
    /\ reconciliation_status # None
    /\ ExportRejectEnabled
    /\ ok => RunExists(current_thread_id)
    /\ IF ok
       THEN /\ srv' = Approved(srv, current_thread_id, "reject")
            /\ reconciliation_status' =
                  ExportDecided(reconciliation_status, "reject")
       ELSE UNCHANGED <<srv, reconciliation_status>>
    /\ ev' = Event("export_reject", ok, 0, 0)
    /\ UNCHANGED <<aggVars, uiVars, view_mode, current_thread_id, history,
                   rec_counter, _bg_history, pc, pollVars,
                   history_is_bg_data, adoptions>>

\* Excel Export pressed: a report request, whatever its outcome
ExportExcel(ok) ==
    /\ ScriptRun
    /\ view_mode = "export"
    /\ reconciliation_status # None
    /\ ExcelEnabled
    /\ ev' = Event("export_excel", ok, 0, 0)
    /\ UNCHANGED <<aggVars, uiVars, view_mode, current_thread_id,
                   reconciliation_status, history, rec_counter, _bg_history,
                   pc, pollVars, srv, history_is_bg_data, adoptions>>

-----------------------------------------------------------------------------
(* Specifications *)

Init ==
    /\ agg_args = [bank_matches |-> <<>>, unmatched_gl_transactions |-> None]
    /\ summary = None
    /\ fetch_body = <<>>
    /\ fetch_ret = None
    /\ WorkflowInit

AnyStatus == {None} \cup {Some(Payload(srv, t)) : t \in RunTokens}

\* the answers to the live fetch of the View button
ListedTokens == {history[i].thread_id : i \in 1..Len(history)}

ViewStatus ==
    AnyStatus \cup {Some(ArchivedPayload(t)) : t \in ListedTokens \ RunTokens}

\* the handlers of the export view
ExportNext ==
    \/ \E ok \in BOOLEAN : ExportApprove(ok)
    \/ \E ok \in BOOLEAN : ExportReject(ok)
    \/ \E ok \in BOOLEAN : ExportExcel(ok)

\* the job service and the handlers of the run lifecycle
RunNext ==
    \/ \E t \in RunTokens : SrvProgress(t)
    \/ rec_counter <= MaxRuns /\ MainRunStarted
    \/ \E resp \in AnyStatus : MainRunFailed(resp)
    \/ \E target \in {"matched", "unmatched", "exceptions", "export"} :
          MainSelect(target)
    \/ Back
    \/ \E idx \in 1..MaxExc, decision \in {"approve", "reject"},
          accepted \in BOOLEAN : ExceptionDecision(idx, decision, accepted)
    \/ \E ok \in BOOLEAN : ProcessingCancel(ok)
    \/ ProcessingEnter
    \/ \E status \in AnyStatus : PollAttempt(status)
    \/ PollExhausted
    \/ \E decision \in {"approve", "reject"}, ok \in BOOLEAN :
          ApprovalDecision(decision, ok)

\* the background worker, the adoption of its result and the History tab
HistNext ==
    \/ \E outcome \in FetchOutcomes : BgFetch(outcome)
    \/ BgSetReady
    \/ Adopt

Next ==
    \/ RunNext
    \/ ExportNext
    \/ HistNext
    \/ HistoryPrev
    \/ HistoryNext
    \/ \E i \in 1..ItemsPerPage, resp \in ViewStatus : HistoryView(i, resp)
    \/ HistoryDetailBack
    \/ \E selected_bank \in {AllBanks} \cup BankNames,
          click \in {"none", "prev", "next"} :
          MatchedRender(selected_bank, click)
    \/ \E resp \in AnyStatus, click \in Clicks : MainRender(resp, click)
    \/ \E click \in Clicks : ViewRender(click)
    \/ \E click \in Clicks : ProcessingReturn(click)

Spec == Init /\ [][Next]_vars

\* the aggregator, called on every payload of the input space
AggInit ==
    /\ agg_args \in AggInputs(MaxRecords)
    /\ summary = None
    /\ fetch_body = <<>>
    /\ fetch_ret = None
    /\ WorkflowInit

Aggregate ==
    /\ summary = None
    /\ summary' = Some(parse_bank_matches(agg_args.bank_matches,
                                          agg_args.unmatched_gl_transactions))
    /\ UNCHANGED <<agg_args, fetch_body, fetch_ret, workflowVars>>

AggNext == Aggregate

SpecAgg == AggInit /\ [][AggNext]_vars

\* the history loader, called on every body of the input space
MaxFetched == 3

FetchTokens == 1..MaxFetched

FetchStamps == {NullStamp, EmptyStamp, 1, 2}

RECURSIVE HistoryBodiesOf(_)
HistoryBodiesOf(tokens) ==
    {<<>>} \cup
    UNION {{<<RawRecord(t, c)>> \o rest :
               c \in FetchStamps, rest \in HistoryBodiesOf(tokens \ {t})} :
           t \in tokens}

HistoryBodies == HistoryBodiesOf(FetchTokens)

FetchInit ==
    /\ agg_args = [bank_matches |-> <<>>, unmatched_gl_transactions |-> None]
    /\ summary = None
    /\ fetch_body \in HistoryBodies
    /\ fetch_ret = None
    /\ WorkflowInit

FetchLoad ==
    /\ fetch_ret = None
    /\ fetch_ret' = Some(fetch_history(fetch_body))
    /\ UNCHANGED <<agg_args, summary, fetch_body, workflowVars>>

FetchNext == FetchLoad

SpecFetch == FetchInit /\ [][FetchNext]_vars

\* one session in which the worker is never scheduled and Refresh is never
\* pressed: the run lifecycle on its own
RunSpecNext ==
    \/ RunNext
    \/ \E resp \in AnyStatus : MainRender(resp, None)
    \/ ViewRender(None)
    \/ ProcessingReturn(None)

SpecRun == Init /\ [][RunSpecNext]_vars

\* one session in which the client polls only once the service has reached
\* a checkpoint and answers: every handler, the worker and the History tab,
\* with a poll that returns at its first attempt
PromptPoll ==
    \E status \in AnyStatus :
        /\ status # None
        /\ status[1].status \in CheckpointStatuses
        /\ PollAttempt(status)

HistSpecNext ==
    \/ HistNext
    \/ \E t \in RunTokens : SrvProgress(t)
    \/ rec_counter <= MaxRuns /\ MainRunStarted
    \/ ExportNext
    \/ \E resp \in AnyStatus : MainRunFailed(resp)
    \/ \E resp \in AnyStatus, click \in Clicks : MainRender(resp, click)
    \/ \E target \in {"matched", "unmatched", "exceptions", "export"} :
          MainSelect(target)
    \/ Back
    \/ \E click \in Clicks : ViewRender(click)
    \/ \E idx \in 1..MaxExc, decision \in {"approve", "reject"},
          accepted \in BOOLEAN : ExceptionDecision(idx, decision, accepted)
    \/ \E ok \in BOOLEAN : ProcessingCancel(ok)
    \/ ProcessingEnter
    \/ PromptPoll
    \/ \E click \in Clicks : ProcessingReturn(click)
    \/ \E decision \in {"approve", "reject"}, ok \in BOOLEAN :
          ApprovalDecision(decision, ok)

SpecHist == Init /\ [][HistSpecNext]_vars

\* sessions of several runs, each taken through review, approval and
\* export with a poll that returns at its first attempt
ExportSpecNext ==
    \/ \E t \in RunTokens : SrvProgress(t)
    \/ rec_counter <= MaxExportRuns /\ MainRunStarted
    \/ \E resp \in AnyStatus : MainRunFailed(resp)
    \/ ProcessingEnter
    \/ PromptPoll
    \/ ProcessingReturn(None)
    \/ \E resp \in AnyStatus : MainRender(resp, None)
    \/ \E target \in {"exceptions", "export"} : MainSelect(target)
    \/ Back
    \/ \E idx \in 1..MaxExc, decision \in {"approve", "reject"},
          accepted \in BOOLEAN : ExceptionDecision(idx, decision, accepted)
    \/ \E decision \in {"approve", "reject"}, ok \in BOOLEAN :
          ApprovalDecision(decision, ok)
    \/ ExportNext

SpecExport == Init /\ [][ExportSpecNext]_vars

\* one session in which the operator moves between the views of the
\* Reconcile tab and the list and detail of the History tab
MaxViewRuns == 1

ViewSpecNext ==
    \/ \E t \in RunTokens : SrvProgress(t)
    \/ rec_counter <= MaxViewRuns /\ MainRunStarted
    \/ ProcessingEnter
    \/ PromptPoll
    \/ ProcessingReturn(None)
    \/ \E resp \in AnyStatus, click \in Clicks : MainRender(resp, click)
    \/ \E target \in {"matched", "unmatched", "exceptions", "export"} :
          MainSelect(target)
    \/ Back
    \/ \E click \in Clicks : ViewRender(click)
    \/ \E i \in 1..ItemsPerPage, resp \in ViewStatus : HistoryView(i, resp)
    \/ HistoryDetailBack

SpecView == Init /\ [][ViewSpecNext]_vars

\* the matched view over the runs of the History tab
MatchedSpecNext ==
    \/ \E click \in Clicks : MainRender(None, click)
    \/ \E i \in 1..ItemsPerPage, resp \in ViewStatus : HistoryView(i, resp)
    \/ HistoryDetailBack
    \/ MainSelect("matched")
    \/ Back
    \/ \E selected_bank \in {AllBanks} \cup BankNames,
          click \in {"none", "prev", "next"} :
          MatchedRender(selected_bank, click)

SpecMatched == Init /\ [][MatchedSpecNext]_vars

\* the run histories the service can hold when paging is explored
MaxHistory == 12

PageHistory(k) == [i \in 1..k |-> RawRecord(100 + i, i)]

PageFetchOutcomes ==
    {[raised |-> FALSE, value |-> None]}
    \cup {[raised |-> FALSE, value |-> Some(fetch_history(PageHistory(k)))] :
            k \in 0..MaxHistory}

\* the History tab on its own: the worker, the adoption, Refresh and paging
PageSpecNext ==
    \/ \E outcome \in PageFetchOutcomes : BgFetch(outcome)
    \/ BgSetReady
    \/ Adopt
    \/ \E click \in {None} \cup {Some(o) : o \in PageFetchOutcomes} :
          MainRender(None, click)
    \/ HistoryPrev
    \/ HistoryNext

SpecPage == Init /\ [][PageSpecNext]_vars

\* the interaction surface keeps running the script, and each thread that
\* can take a step eventually takes it
Tick ==
    \/ Adopt
    \/ \E resp \in AnyStatus, click \in Clicks : MainRender(resp, click)
    \/ \E click \in Clicks : ViewRender(click)
    \/ ProcessingEnter
    \/ PromptPoll
    \/ \E click \in Clicks : ProcessingReturn(click)

SpecHistFair ==
    /\ SpecHist
    /\ WF_vars(Adopt)
    /\ WF_vars(Tick)
    /\ WF_vars(\E outcome \in FetchOutcomes : BgFetch(outcome))
    /\ WF_vars(BgSetReady)
    /\ WF_vars(\E t \in RunTokens : SrvProgress(t))

\* the poll loop is never starved by the scheduler
SpecRunFair ==
    /\ SpecRun
    /\ WF_vars(\E status \in AnyStatus : PollAttempt(status))
    /\ WF_vars(PollExhausted)

-----------------------------------------------------------------------------
(* Properties of the aggregator (SpecAgg) *)

ArgBanks == agg_args.bank_matches

RECURSIVE SumLen(_, _)
SumLen(bank_matches, key) ==
    IF bank_matches = <<>> THEN 0
    ELSE (IF key \in DOMAIN Head(bank_matches)[2]
          THEN Len(Head(bank_matches)[2][key]) ELSE 0)
         + SumLen(Tail(bank_matches), key)

\* C1: the three counts of the summary are the sums, over the banks of the
\* payload, of the lengths of matched_transactions, exceptions and
\* unmatched_bank_transactions, and each count is the length of the
\* corresponding list of the summary.
C1_CountsAreSums ==
    summary # None =>
        LET s == summary[1]
        IN  /\ s.matched_count = SumLen(ArgBanks, "matched_transactions")
            /\ s.exceptions_count = SumLen(ArgBanks, "exceptions")
            /\ s.unmatched_count =
                  SumLen(ArgBanks, "unmatched_bank_transactions")
            /\ s.matched_count = Len(s.matched_transactions)
            /\ s.exceptions_count = Len(s.exceptions)
            /\ s.unmatched_count = Len(s.unmatched_bank)

\* two banks that both contribute exceptions have been aggregated
C1_Witness ==
    /\ summary # None
    /\ Len(ArgBanks) = 2
    /\ \A i \in 1..2 : "exceptions" \in DOMAIN ArgBanks[i][2]
                       /\ Len(ArgBanks[i][2]["exceptions"]) = 1
    /\ summary[1].exceptions_count = 2

\* C2 as stated: on an empty map the counts are zero and every list of the
\* summary, unmatched_gl included, is empty whatever the unmatchedGl argument.
C2_AllListsEmpty ==
    (summary # None /\ ArgBanks = <<>>) =>
        LET s == summary[1]
        IN  /\ s.matched_count = 0
            /\ s.unmatched_count = 0
            /\ s.exceptions_count = 0
            /\ s.matched_transactions = <<>>
            /\ s.unmatched_bank = <<>>
            /\ s.exceptions = <<>>
            /\ s.unmatched_gl = <<>>

\* C2 as amended: on an empty map the counts are zero and
\* matched_transactions, unmatched_bank and exceptions are empty;
\* unmatched_gl is the unmatchedGl argument (empty when the argument is
\* None or empty).
C2_EmptyMap ==
    (summary # None /\ ArgBanks = <<>>) =>
        LET s == summary[1]
            gl == agg_args.unmatched_gl_transactions
        IN  /\ s.matched_count = 0
            /\ s.unmatched_count = 0
            /\ s.exceptions_count = 0
            /\ s.matched_transactions = <<>>
            /\ s.unmatched_bank = <<>>
            /\ s.exceptions = <<>>
            /\ s.unmatched_gl = (IF gl = None THEN <<>> ELSE gl[1])

\* the empty map aggregated with a non-empty unmatchedGl argument
C2_Witness ==
    /\ summary # None
    /\ ArgBanks = <<>>
    /\ agg_args.unmatched_gl_transactions = Some(<<Gl(5)>>)
    /\ summary[1].unmatched_gl = <<Gl(5)>>

\* the matched entries of the payload, in the order of aggregation
RECURSIVE FlatMatched(_)
FlatMatched(bank_matches) ==
    IF bank_matches = <<>> THEN <<>>
    ELSE (IF "matched_transactions" \in DOMAIN Head(bank_matches)[2]
          THEN Head(bank_matches)[2]["matched_transactions"] ELSE <<>>)
         \o FlatMatched(Tail(bank_matches))

\* C3: a matched entry of the output is Auto iff the confidence of the
\* entry it was made from is at least 0.75, a missing confidence counting
\* as 0; it is Manual otherwise.
C3_AutoIffAtLeastThreshold ==
    summary # None =>
        LET out == summary[1].matched_transactions
            in == FlatMatched(ArgBanks)
        IN  /\ Len(out) = Len(in)
            /\ \A i \in 1..Len(out) :
                  LET c == IF "confidence" \in DOMAIN in[i]
                           THEN in[i]["confidence"] ELSE 0
                  IN  /\ out[i].match_type \in {"Auto", "Manual"}
                      /\ (out[i].match_type = "Auto") <=> (c >= 750000)

\* one entry at exactly 0.75 (Auto) and one at 0.749999 (Manual)
C3_Witness ==
    /\ summary # None
    /\ \E i, j \in 1..Len(summary[1].matched_transactions) :
          LET out == summary[1].matched_transactions
          IN  /\ out[i].confidence = 750000 /\ out[i].match_type = "Auto"
              /\ out[j].confidence = 749999 /\ out[j].match_type = "Manual"

-----------------------------------------------------------------------------
(* Properties of the poller (SpecRun, SpecRunFair) *)

ReadyStatuses ==
    {"awaiting_human_review", "review_required", "awaiting_final_approval",
     "complete", "cancelled", "failed"}

\* C4: while the loop runs it has received no response whose status is one
\* of the six checkpoint values; when it returns a response, that response
\* is the only checkpoint response received, it is the response of the last
\* status call, and the calls issued are the failed or non-checkpoint
\* attempts plus that one.
C4_ReturnsFirstCheckpoint ==
    /\ pc = "polling" => poll_seen \cap ReadyStatuses = {}
    /\ (pc = "returned" /\ poll_ret # None) =>
          /\ poll_ret[1].status \in ReadyStatuses
          /\ poll_seen \cap ReadyStatuses = {poll_ret[1].status}
          /\ reconciliation_status = poll_ret
          /\ poll_calls = attempt + 1

\* responses running, running, awaiting_human_review: returned on call 3
C4_Witness ==
    /\ pc = "returned"
    /\ poll_ret # None
    /\ poll_ret[1].status = "awaiting_human_review"
    /\ poll_seen = {"running", "awaiting_human_review"}
    /\ poll_calls = 3
    /\ attempt = 2

\* C5: the poll issues at most 30 status calls; a poll that received no
\* checkpoint response returns None after exactly 30 calls, whatever status
\* is cached; and every poll that begins returns.
C5_Bounded ==
    /\ poll_calls <= 30
    /\ (pc = "returned" /\ poll_seen \cap ReadyStatuses = {}) =>
          /\ poll_ret = None
          /\ poll_calls = 30

C5_Terminates == []C5_Bounded /\ ((pc = "polling") ~> (pc = "returned"))

\* 30 calls answered running: the poll returned None, not the payload
C5_Witness ==
    /\ pc = "returned"
    /\ poll_calls = 30
    /\ poll_seen = {"running"}
    /\ reconciliation_status # None
    /\ reconciliation_status[1].status = "running"
    /\ poll_ret = None

-----------------------------------------------------------------------------
(* Properties of the decision controller (SpecRun) *)

\* C6 as stated: after a decision the service accepted, the cached status
\* is the status the service holds after the decision.
C6_CacheIsFresh ==
    (ev.op = "decide" /\ ev.ok) =>
        reconciliation_status = Some(Payload(srv, current_thread_id))

\* C7: a decision the service did not accept changes nothing but the
\* record of the step: no session state, no service state, no status
\* request, and one decision request.
C7_RefusedDecisionChangesNothing ==
    [][(ev'.op = "decide" /\ ~ev'.ok) =>
          /\ UNCHANGED <<sessionVars, uiVars, _bg_history, bg_pc, pc,
                         pollVars, srv, history_is_bg_data, bg_threads,
                         adoptions>>
          /\ ev'.status_calls = 0
          /\ ev'.decision_calls = 1]_vars

\* a refused decision on a listed exception
C7_Witness ==
    /\ ev.op = "decide"
    /\ ~ev.ok
    /\ view_mode = "exceptions"
    /\ reconciliation_status # None
    /\ Len(reconciliation_status[1].bank_matches[1][2].exceptions) > 0

-----------------------------------------------------------------------------
(* Properties of the history cache (SpecHist, SpecHistFair) *)

\* C8: at most one background history fetch is started in a session.
C8_AtMostOneFetch == bg_threads <= 1

\* the script ran again, with an empty run list, after the fetch was started
\* and had finished
C8_Witness ==
    /\ bg_threads = 1
    /\ bg_pc = "done"
    /\ history = <<>>
    /\ ev.op = "refresh"

C10_EventuallyAdopted ==
    (/\ _bg_history.ready
     /\ _bg_history.data # None
     /\ _bg_history.data[1] # <<>>) ~> history_is_bg_data

-----------------------------------------------------------------------------
(* Properties of the workflow state machine (SpecRun) *)

\* C11: Run is pressed in view main only; the view becomes processing when
\* the start call returned a run token (which becomes the current run), and
\* stays main, with the current run unchanged, when it returned none.
C11_RunMovesToProcessingIffStarted ==
    [][(ev'.op = "run") =>
          /\ view_mode = "main"
          /\ ev'.ok => /\ view_mode' = "processing"
                       /\ current_thread_id' # NoThread
                       /\ current_thread_id' # current_thread_id
          /\ ~ev'.ok => /\ view_mode' = "main"
                        /\ UNCHANGED current_thread_id]_vars

\* a start call that failed, in a session that had started a run before
C11_Witness ==
    /\ ev.op = "run"
    /\ ~ev.ok
    /\ view_mode = "main"
    /\ current_thread_id # NoThread

\* C12 as stated: when the poll has returned, render_processing leaves the
\* processing view: to approval on awaiting_final_approval, to main on every
\* other returned status and on a poll that returned nothing.
C12_PollReturnLeavesProcessing ==
    [][(pc = "returned" /\ pc' = "idle") =>
          view_mode' =
             IF poll_ret # None
                /\ poll_ret[1].status = "awaiting_final_approval"
             THEN "approval" ELSE "main"]_vars

\* C13 as stated: a poll that returned review_required is handled as one
\* that returned awaiting_human_review: the status is cached and the view
\* becomes main.
C13_SynonymsAgree ==
    [][(/\ pc = "returned"
        /\ pc' = "idle"
        /\ poll_ret # None
        /\ poll_ret[1].status \in ReviewStatuses) =>
          /\ reconciliation_status' = poll_ret
          /\ view_mode' = "main"]_vars

\* C16: a decision of the approval view is taken in view approval; accepted,
\* approve leads to processing and reject to main; refused, the view stays
\* approval.
C16_ApprovalTransitions ==
    [][(ev'.op \in {"approval_approve", "approval_reject"}) =>
          /\ view_mode = "approval"
          /\ view_mode' =
                IF ~ev'.ok THEN "approval"
                ELSE IF ev'.op = "approval_approve" THEN "processing"
                ELSE "main"]_vars

\* an accepted approve: the view is processing again
C16_Witness ==
    /\ ev.op = "approval_approve"
    /\ ev.ok
    /\ view_mode = "processing"
    /\ pc = "idle"

-----------------------------------------------------------------------------
(* Properties of the export view (SpecExport, SpecRun) *)

\* C14 as stated: in the export view the approval controls can be used
\* exactly when the aggregated exceptions_count is 0 and the cached status
\* is not complete.
C14_ApprovalOfferedIffReady ==
    (view_mode = "export" /\ pc = "idle" /\ reconciliation_status # None) =>
        LET ready == /\ CachedSummary.exceptions_count = 0
                     /\ reconciliation_status[1].status # "complete"
        IN  /\ ExportApproveEnabled <=> ready
            /\ ExportRejectEnabled <=> ready

\* C15: an accepted approve of the export view sets the cached status field
\* to complete and an accepted reject sets it to rejected, changing nothing
\* else of the cached status, with no status request and the view still
\* export; a refused decision leaves the cached status unchanged; after an
\* accepted approve the Excel export is enabled, and an Excel export is
\* requested only while the cached status is complete.
C15_ExportDecisionInPlace ==
    [][/\ (ev'.op \in {"export_approve", "export_reject"}) =>
            /\ view_mode = "export"
            /\ view_mode' = "export"
            /\ ev'.status_calls = 0
            /\ UNCHANGED <<pc, pollVars>>
            /\ ev'.ok =>
                  /\ reconciliation_status' =
                        Some([reconciliation_status[1] EXCEPT !.status =
                                IF ev'.op = "export_approve"
                                THEN "complete" ELSE "rejected"])
                  /\ (ev'.op = "export_approve") => ExcelEnabled'
            /\ ~ev'.ok => UNCHANGED reconciliation_status
       /\ (ev'.op = "export_excel") =>
            /\ view_mode = "export"
            /\ reconciliation_status # None
            /\ reconciliation_status[1].status = "complete"
            /\ UNCHANGED reconciliation_status]_vars

\* an accepted reject: the cached status carries the rejected marker and
\* the view is still export
C15_Witness ==
    /\ ev.op = "export_reject"
    /\ ev.ok
    /\ view_mode = "export"
    /\ reconciliation_status # None
    /\ reconciliation_status[1].status = "rejected"

-----------------------------------------------------------------------------
(* Properties of cancellation (SpecRun) *)

\* C17: a cancel request is sent from the processing view only.  Accepted,
\* it makes the view main, leaves the cached status as it was and leaves no
\* poll in flight; refused, it leaves the view processing and the cached
\* status unchanged.  A poll is in flight or has just returned only while
\* the view is processing, so no poll acts on the session after an accepted
\* cancel.
C17_CancelDiscardsPoll ==
    /\ [](pc \in {"polling", "returned"} => view_mode = "processing")
    /\ [][(ev'.op = "cancel") =>
            /\ view_mode = "processing"
            /\ UNCHANGED reconciliation_status
            /\ ev'.ok => (view_mode' = "main" /\ pc' = "idle")
            /\ ~ev'.ok => view_mode' = "processing"]_vars

\* an accepted cancel of a run whose earlier poll had returned
C17_Witness ==
    /\ ev.op = "cancel"
    /\ ev.ok
    /\ view_mode = "main"
    /\ pc = "idle"
    /\ poll_calls > 0
    /\ srv[current_thread_id].status = "cancelled"

\* C18 as stated: between two status attempts of a poll, the Cancel handler
\* can run.
C18_CancelDeliverableWhilePolling ==
    (/\ pc = "polling"
     /\ view_mode = "processing"
     /\ 0 < attempt
     /\ attempt < MaxAttempts) =>
        ENABLED (\E ok \in BOOLEAN : ProcessingCancel(ok))

-----------------------------------------------------------------------------
(* Properties of pagination (SpecPage) *)

RECURSIVE ConcatPages(_, _, _)
ConcatPages(list, p, last) ==
    IF p > last THEN <<>>
    ELSE PageSlice(list, p) \o ConcatPages(list, p + 1, last)

\* C19: for the list of n items the History tab displays, the page count
\* is 1 when n = 0 and the least number of pages of 5 that hold n items
\* otherwise (12 items: 3 pages); every slice has at most 5 items, the
\* slices of pages 1..page count concatenate to the list, and page 1 of an
\* empty list is empty.
C19_PageCountAndSlices ==
    LET n == Len(history)
        pages == TotalPages(n)
    IN  /\ pages >= 1
        /\ n = 0 => (pages = 1 /\ PageSlice(history, 1) = <<>>)
        /\ n > 0 => (5 * (pages - 1) < n /\ n <= 5 * pages)
        /\ n = 12 => pages = 3
        /\ \A p \in 1..pages : Len(PageSlice(history, p)) <= 5
        /\ ConcatPages(history, 1, pages) = history

\* 12 runs listed, the cursor on page 3 of 3, which shows the last two
C19_Witness ==
    /\ Len(history) = 12
    /\ history_page = 3
    /\ TotalPages(Len(history)) = 3
    /\ PageSlice(history, history_page) = SubSeq(history, 11, 12)

\* C20 as stated: the History tab's cursor lies in 1..max(1, ceil(n / 5))
\* for the n runs the tab lists.
C20_CursorInRange ==
    LET n == Len(history)
    IN  /\ history_page >= 1
        /\ 5 * (history_page - 1) < (IF n = 0 THEN 1 ELSE n)

-----------------------------------------------------------------------------
(* Properties of navigation (SpecRun) *)

\* C22: a tile or the export button is pressed in view main and opens the
\* view of its name; the back button is pressed in one of the four views
\* and opens main; neither changes the current run nor the cached status.
C22_NavigationTransitions ==
    [][/\ \A target \in {"matched", "unmatched", "exceptions", "export"} :
            (ev'.op = "select_" \o target) =>
                /\ view_mode = "main"
                /\ view_mode' = target
                /\ UNCHANGED <<current_thread_id, reconciliation_status>>
       /\ (ev'.op = "back") =>
            /\ view_mode \in {"matched", "unmatched", "exceptions", "export"}
            /\ view_mode' = "main"
            /\ UNCHANGED <<current_thread_id, reconciliation_status>>]_vars

\* the exceptions tile pressed with a run and its status cached
C22_Witness ==
    /\ ev.op = "select_exceptions"
    /\ view_mode = "exceptions"
    /\ current_thread_id # NoThread
    /\ reconciliation_status # None

-----------------------------------------------------------------------------
(* Properties of the poll's cache (SpecRun) *)

\* C27: every status call of the loop that succeeds stores its response as
\* the cached status, checkpoint or not; after a poll that returned the
\* timeout sentinel having received responses, the cached status is one the
\* poll received, and it is not a checkpoint.
C27_EverySuccessCached ==
    /\ [][(ev'.op \in {"poll_sleep", "poll_return"} /\ ev'.ok) =>
            /\ reconciliation_status' =
                  Some(Payload(srv, current_thread_id))
            /\ reconciliation_status'[1].status \in poll_seen']_vars
    /\ []((pc = "returned" /\ poll_ret = None /\ poll_seen # {}) =>
            /\ reconciliation_status # None
            /\ reconciliation_status[1].status \in poll_seen
            /\ reconciliation_status[1].status \notin ReadyStatuses)

\* a running response cached by the loop, which goes on
C27_Witness ==
    /\ ev.op = "poll_sleep"
    /\ ev.ok
    /\ pc = "polling"
    /\ attempt = 2
    /\ reconciliation_status # None
    /\ reconciliation_status[1].status = "running"

\* C30: a status call of the loop that fails leaves the cached status as it
\* was, uses up one attempt and one status call, ends in the sleep and
\* does not return from the loop.
C30_FailedCallConsumesAttempt ==
    [][(ev'.op \in {"poll_sleep", "poll_return"} /\ ~ev'.ok) =>
          /\ ev'.op = "poll_sleep"
          /\ UNCHANGED <<reconciliation_status, poll_ret, poll_seen>>
          /\ attempt' = attempt + 1
          /\ poll_calls' = poll_calls + 1
          /\ pc = "polling"
          /\ pc' = "polling"]_vars

\* a failed call after a successful one: the running payload stays cached
C30_Witness ==
    /\ ev.op = "poll_sleep"
    /\ ~ev.ok
    /\ pc = "polling"
    /\ attempt = 2
    /\ poll_seen = {"running"}
    /\ reconciliation_status # None
    /\ reconciliation_status[1].status = "running"

-----------------------------------------------------------------------------
(* Further properties of the aggregator (SpecAgg) *)

\* C28: the gl_transaction of each aggregated matched record is the first
\* element of its entry's gl_entries when that list has elements, and the
\* empty record when the list is empty or the key is absent; every matched
\* entry yields a record.
C28_FirstGlEntry ==
    summary # None =>
        LET out == summary[1].matched_transactions
            in == FlatMatched(ArgBanks)
        IN  /\ Len(out) = Len(in)
            /\ \A i \in 1..Len(out) :
                  IF "gl_entries" \in DOMAIN in[i]
                     /\ Len(in[i]["gl_entries"]) > 0
                  THEN out[i].gl_transaction = Head(in[i]["gl_entries"])
                  ELSE out[i].gl_transaction = EmptyDict

\* an entry with two gl_entries and an entry with none, aggregated together
C28_Witness ==
    /\ summary # None
    /\ \E i, j \in 1..Len(summary[1].matched_transactions) :
          LET out == summary[1].matched_transactions
              in == FlatMatched(ArgBanks)
          IN  /\ "gl_entries" \in DOMAIN in[i]
              /\ Len(in[i]["gl_entries"]) = 2
              /\ out[i].gl_transaction = Gl(2)
              /\ "gl_entries" \notin DOMAIN in[j]
              /\ out[j].gl_transaction = EmptyDict

-----------------------------------------------------------------------------
(* End to end: review of one exception (SpecRun) *)

\* C23: when a poll returned awaiting_human_review, the view becomes main
\* and the cached status is the returned payload, with its bank_matches.
\* Then, from a cached status that is what the service reports, a decision
\* on a listed exception that the service accepts, followed by a status
\* fetch that returns the service's status, leaves an aggregated
\* exceptions_count exactly one less than before.
C23_DecisionRemovesOneException ==
    /\ [][(/\ pc = "returned"
            /\ pc' = "idle"
            /\ poll_ret # None
            /\ poll_ret[1].status = "awaiting_human_review") =>
              /\ view_mode' = "main"
              /\ reconciliation_status' = poll_ret
              /\ "bank_matches" \in DOMAIN reconciliation_status'[1]]_vars
    /\ [][(/\ ev'.op = "decide"
            /\ ev'.ok
            /\ reconciliation_status =
                  Some(Payload(srv, current_thread_id))
            /\ reconciliation_status' =
                  Some(Payload(srv', current_thread_id))) =>
              CachedSummary'.exceptions_count =
                 CachedSummary.exceptions_count - 1]_vars

\* the only exception of a run under review was decided and the refreshed
\* summary lists none
C23_Witness ==
    /\ ev.op = "decide"
    /\ ev.ok
    /\ view_mode = "exceptions"
    /\ reconciliation_status = Some(Payload(srv, current_thread_id))
    /\ reconciliation_status[1].status = "awaiting_human_review"
    /\ CachedSummary.exceptions_count = 0

-----------------------------------------------------------------------------
(* fetch_history: order and identifiers (SpecFetch) *)

Stamped(list) == {i \in 1..Len(list) : list[i].created_at # NullStamp}

\* C26 as stated: the returned records are in descending order of their
\* creation timestamps, so that REC-001 is the most recent run
C26_SortedDescending ==
    fetch_ret # None =>
        LET out == fetch_ret[1]
        IN  \A i, j \in Stamped(out) :
               i < j => out[i].created_at >= out[j].created_at

\* C26: the identifier of the k-th returned record is REC-00k for every
\* load, so identifiers are distinct and contiguous from 1, and the records
\* returned are those received; they are in descending order of creation
\* timestamp when the timestamps can be compared, and in the order received
\* when a timestamp is null among two or more records
C26_PositionalIds ==
    fetch_ret # None =>
        LET out == fetch_ret[1]
        IN  /\ Len(out) = Len(fetch_body)
            /\ \A k \in 1..Len(out) : out[k].rec_id = RecId(k)
            /\ \A i, j \in 1..Len(out) :
                  i # j => out[i].rec_id # out[j].rec_id
            /\ {out[k].thread_id : k \in 1..Len(out)} =
                  {fetch_body[k].thread_id : k \in 1..Len(out)}
            /\ IF SortFails(fetch_body)
               THEN \A k \in 1..Len(out) :
                       out[k].thread_id = fetch_body[k].thread_id
               ELSE \A i, j \in 1..Len(out) :
                       i < j => out[i].created_at >= out[j].created_at

\* a body received oldest first came back newest first under new
\* identifiers
C26_Witness ==
    /\ fetch_ret # None
    /\ Len(fetch_body) = 3
    /\ ~SortFails(fetch_body)
    /\ fetch_body[1].created_at < fetch_body[3].created_at
    /\ fetch_ret[1][1].thread_id = fetch_body[3].thread_id
    /\ fetch_ret[1][1].rec_id = RecId(1)

-----------------------------------------------------------------------------
(* The request layer: failures (SpecHist) *)

\* C24: no operation of the request layer raises into its caller.  The
\* background worker stores an error only in the except clause around its
\* call of fetch_history, so the slot never holds an error.
C24_NoOperationRaises == _bg_history.error = None

-----------------------------------------------------------------------------
(* The History tab's View button and the views' empty states (SpecView) *)

\* C25: View on a record that holds a non-empty result snapshot issues no
\* status request
C25_SnapshotPreferred ==
    [][(/\ ev'.op = "history_view"
        /\ selected_history_item' # None
        /\ Get(selected_history_item'[1], "results", EmptyDict) # EmptyDict)
          => ev'.status_calls = 0]_vars

\* C29: no view of the Reconcile tab is rendered in a state in which its
\* render function raises: a view that expects run data shows its no-data
\* state when the cached status is None
C29_RenderNeverRaises ==
    reconciliation_status = None =>
        (view_mode \in {"main", "processing"} \cup ViewsWithNoDataState)

-----------------------------------------------------------------------------
(* The matched view's bank filter (SpecMatched) *)

\* C21: a render of the matched view whose selected bank differs from the
\* filter last applied (or is the first applied) computes its slice with
\* the cursor at 1, and a page button pressed in that run moves from 1;
\* with the same filter as before the filter step leaves the cursor alone
C21_FilterChangeResetsCursor ==
    [][LET selected_bank == previous_bank_filter'[1]
           changed == FilterChanged(selected_bank)
           matched == FilterByBank(CachedSummary.matched_transactions,
                                   selected_bank)
       IN  /\ (ev'.op = "matched_render" /\ changed) =>
                 /\ matched_page' = 1
                 /\ ev'.shown = PageSlice(matched, 1)
           /\ (ev'.op = "matched_render" /\ ~changed) =>
                 /\ matched_page' = matched_page
                 /\ ev'.shown = PageSlice(matched, matched_page)
           /\ (ev'.op = "matched_next" /\ changed) => matched_page' = 2
           /\ (ev'.op = "matched_next" /\ ~changed) =>
                 matched_page' = matched_page + 1
           /\ (ev'.op = "matched_prev") =>
                 (~changed /\ matched_page' = matched_page - 1)]_vars

\* the second page was shown and another bank was selected: the view is
\* back on the first page of that bank's matches
C21_Witness ==
    /\ ev.op = "matched_render"
    /\ ev.from_page = 2
    /\ matched_page = 1
    /\ previous_bank_filter = Some("Access")
    /\ Len(ev.shown) = 1

-----------------------------------------------------------------------------
(* Ownership of the run's identity and status (SpecView, SpecExport) *)

\* C31: a cached status that is not None is a status of the run named by
\* current_thread_id
C31_CachedStatusOfCurrentRun ==
    reconciliation_status # None =>
        Get(reconciliation_status[1], "thread_id", NoThread)
           = current_thread_id

-----------------------------------------------------------------------------
(* The worker and the staging slot (SpecHist) *)

WorkerStep == bg_pc \in {"fetch", "set_ready"} /\ bg_pc' # bg_pc

\* C32: a step of the background worker changes the staging slot and
\* nothing of the session: not the run list, the cached status, the view
\* mode, the run token, the counter or a page cursor
C32_WorkerWritesOnlySlot ==
    [][WorkerStep =>
          UNCHANGED <<history, reconciliation_status, view_mode,
                      current_thread_id, rec_counter, history_bg_started,
                      uiVars>>]_vars

\* the worker has staged a list of records and the run list is still empty
C32_Witness ==
    /\ bg_pc = "done"
    /\ _bg_history.ready
    /\ _bg_history.data # None
    /\ _bg_history.data[1] # <<>>
    /\ history = <<>>

-----------------------------------------------------------------------------
(* Starting a run: the counter and the run list (SpecExport) *)

\* C34: the counter never decreases; a step adds 1 to it when it is a
\* successful start and 0 otherwise; the identifiers of the runs started
\* in the session are distinct and increase in start order, whatever the
\* tokens are
C34_CounterCountsStarts ==
    /\ [][rec_counter' =
             rec_counter + (IF ev'.op = "run" /\ ev'.ok THEN 1 ELSE 0)]_vars
    /\ [](\A i, j \in 1..Len(history) :
             i < j => /\ history[i].rec_id[2] < history[j].rec_id[2]
                      /\ history[j].rec_id = RecId(rec_counter - 1
                                                     - (Len(history) - j)))

\* two runs were started, with a failed start after the second
C34_Witness ==
    /\ Len(history) = 2
    /\ history[1].rec_id = RecId(1)
    /\ history[2].rec_id = RecId(2)
    /\ rec_counter = 3
    /\ ev.op = "run"
    /\ ~ev.ok

\* C36: a failed start leaves the run token, the view mode, the counter
\* and the run list as they were; a successful start sets the run token to
\* the returned token, appends one record of that token with status
\* processing to the run list, and adds one to the counter
C36_StartFrame ==
    [][/\ (ev'.op = "run" /\ ~ev'.ok) =>
             UNCHANGED <<current_thread_id, view_mode, rec_counter, history>>
       /\ (ev'.op = "run" /\ ev'.ok) =>
             /\ current_thread_id' # current_thread_id
             /\ current_thread_id' \in RunTokens
             /\ srv[current_thread_id'].status = "none"
             /\ srv'[current_thread_id'].status = "running"
             /\ Len(history') = Len(history) + 1
             /\ SubSeq(history', 1, Len(history)) = history
             /\ history'[Len(history')].thread_id = current_thread_id'
             /\ history'[Len(history')].status = "processing"
             /\ history'[Len(history')].rec_id = RecId(rec_counter)
             /\ rec_counter' = rec_counter + 1]_vars

\* the second run of the session has just been started
C36_Witness ==
    /\ ev.op = "run"
    /\ ev.ok
    /\ Len(history) = 2
    /\ history[2].thread_id = current_thread_id
    /\ rec_counter = 3

-----------------------------------------------------------------------------
(* The two numberings of the run list (SpecHist) *)

\* C35: no two entries of the run list that have different run tokens have
\* the same rec_id
C35_RecIdsNotShared ==
    \A i, j \in 1..Len(history) :
       history[i].thread_id # history[j].thread_id =>
          history[i].rec_id # history[j].rec_id

-----------------------------------------------------------------------------
(* Approval of later runs (SpecExport) *)

\* C37: whenever the export view is shown with no exceptions and a cached
\* status that is not complete, the Approve button is not disabled,
\* whatever was approved before in the session
C37_ApproveEnabledForEveryRun ==
    (/\ view_mode = "export"
     /\ pc = "idle"
     /\ reconciliation_status # None
     /\ ReadyForApproval) => ~approval_submitted

-----------------------------------------------------------------------------
(* A failed background fetch (SpecHist) *)

WorkerFailed == bg_pc = "done" /\ _bg_history.data = None

\* C38: when the background fetch raised or was answered with a non-200
\* code, the worker's steps leave the run list and the view mode alone and
\* end with the ready flag set (and the error stored when it raised); from
\* then on the slot stays as it is and no script run takes the adoption
\* branch, so every script run goes on to the view dispatch
C38_FailedFetchIsNotFatal ==
    /\ [][(WorkerStep /\ _bg_history'.data = None) =>
             /\ UNCHANGED <<history, view_mode>>
             /\ (bg_pc' = "done" => _bg_history'.ready)]_vars
    /\ [](WorkerFailed => (_bg_history.ready /\ ~Adopts))
    /\ [][WorkerFailed => (WorkerFailed' /\ _bg_history' = _bg_history)]_vars

\* the fetch raised, and a run was started afterwards
C38_Witness ==
    /\ WorkerFailed
    /\ _bg_history.error # None
    /\ _bg_history.ready
    /\ view_mode = "processing"
    /\ Len(history) = 1

-----------------------------------------------------------------------------
(* View modes and the History tab's toggle (SpecView) *)

\* the values the code assigns to view_mode
ViewModes ==
    {"main", "processing", "matched", "unmatched", "exceptions", "export",
     "approval"}

\* C39: the view mode is main at first and always one of the view modes;
\* View and the detail's Back change the selected history item (View also
\* the cached status) and never the view mode, and no other step changes
\* the selected history item
C39_HistoryToggleIndependent ==
    /\ view_mode = "main"
    /\ selected_history_item = None
    /\ [](view_mode \in ViewModes)
    /\ [][ev'.op \in {"history_view", "history_back"} =>
             /\ selected_history_item' # selected_history_item
             /\ UNCHANGED <<view_mode, current_thread_id, history,
                            rec_counter, history_page, matchedVars>>]_vars
    /\ [][ev'.op = "history_back" => UNCHANGED reconciliation_status]_vars
    /\ [][selected_history_item' # selected_history_item =>
             ev'.op \in {"history_view", "history_back"}]_vars

\* a record was opened while the Reconcile tab shows the exceptions view
C39_Witness ==
    /\ ev.op = "history_view"
    /\ selected_history_item # None
    /\ view_mode = "exceptions"

-----------------------------------------------------------------------------
(* Adoption and the records of local runs (SpecHist) *)

\* C40: the staged result is copied into the run list only when that list
\* is empty, and a step other than a press of Refresh keeps every record
\* of a non-empty run list, in place
C40_AdoptionKeepsLocalRuns ==
    /\ [][adoptions' = adoptions + 1 => history = <<>>]_vars
    /\ [][(history # <<>> /\ ev'.op # "refresh") =>
             /\ Len(history') >= Len(history)
             /\ SubSeq(history', 1, Len(history)) = history]_vars

\* a run was started before the worker finished: the staged list is ready
\* and the run list still holds the run's record alone
C40_Witness ==
    /\ _bg_history.ready
    /\ _bg_history.data # None
    /\ _bg_history.data[1] # <<>>
    /\ ~history_is_bg_data
    /\ Len(history) = 1
    /\ history[1].status = "processing"
    /\ pc = "idle"
    /\ view_mode = "main"

====
